---- MODULE Spec2Model ----
(***************************************************************************)
(* Model of lib/xesite_templates/src/lib.rs: the hydration bridge          *)
(* (xeact_component), the browser's execution of the script it emits, and  *)
(* the post renderer (toot_embed).                                         *)
(*                                                                         *)
(* Text is a sequence of chunks (strings).  Everything that comes from an  *)
(* argument is kept at character granularity, one character per chunk, so  *)
(* that escaping, prefix tests, replacement and scanning are computed      *)
(* character by character.  A literal of a template is a single chunk.     *)
(***************************************************************************)
EXTENDS Integers, Sequences, FiniteSets, TLC

VARIABLES page, phase, dom, nextScript, ran, tootU, tootT, tootOut

vars == <<page, phase, dom, nextScript, ran, tootU, tootT, tootOut>>

(***************************************************************************)
(* Bounds of the model.                                                    *)
(***************************************************************************)
\* calls of xeact_component during one page render
MaxCalls == 2
\* distinct values the random generator may hand to Uuid::new_v4
NumDraws == 2
\* attachments of one post
MaxAttachments == 2

(***************************************************************************)
(* Text helpers: str::starts_with, str::replace, str::to_lowercase, and    *)
(* the escaping maud applies to every spliced value.                       *)
(***************************************************************************)
\* s[i..] begins with p
MatchAt(s, i, p) ==
    /\ i + Len(p) - 1 <= Len(s)
    /\ SubSeq(s, i, i + Len(p) - 1) = p

starts_with(s, p) == MatchAt(s, 1, p)

RECURSIVE FindFrom(_, _, _)
\* index of the first occurrence of p in s at or after i, 0 when there is none
FindFrom(s, i, p) ==
    IF i + Len(p) - 1 > Len(s) THEN 0
    ELSE IF MatchAt(s, i, p) THEN i
    ELSE FindFrom(s, i + 1, p)

Contains(s, p) == FindFrom(s, 1, p) # 0

RECURSIVE ReplaceFrom(_, _, _, _)
ReplaceFrom(s, i, from, to) ==
    IF i > Len(s) THEN <<>>
    ELSE IF MatchAt(s, i, from) THEN to \o ReplaceFrom(s, i + Len(from), from, to)
    ELSE <<s[i]>> \o ReplaceFrom(s, i + 1, from, to)

\* str::replace: every non-overlapping occurrence, left to right
replace(s, from, to) == ReplaceFrom(s, 1, from, to)

Upper == <<"A","B","C","D","E","F","G","H","I","J","K","L","M",
           "N","O","P","Q","R","S","T","U","V","W","X","Y","Z">>
Lower == <<"a","b","c","d","e","f","g","h","i","j","k","l","m",
           "n","o","p","q","r","s","t","u","v","w","x","y","z">>

LowerChar(c) ==
    IF \E k \in 1..26 : Upper[k] = c
    THEN Lower[CHOOSE k \in 1..26 : Upper[k] = c]
    ELSE c

to_lowercase(s) == [i \in 1..Len(s) |-> LowerChar(s[i])]

EscapeChar(c) ==
    CASE c = "&"  -> <<"&", "a", "m", "p", ";">>
      [] c = "<"  -> <<"&", "l", "t", ";">>
      [] c = ">"  -> <<"&", "g", "t", ";">>
      [] c = "\"" -> <<"&", "q", "u", "o", "t", ";">>
      [] OTHER    -> <<c>>

RECURSIVE Escape(_)
\* maud's escaping of a spliced value: & < > " become entities
Escape(s) == IF s = <<>> THEN <<>> ELSE EscapeChar(Head(s)) \o Escape(Tail(s))

RECURSIVE Unescape(_)
\* what an HTML parser makes of escaped text: the four entities decoded
Unescape(s) ==
    IF s = <<>> THEN <<>>
    ELSE IF starts_with(s, <<"&", "a", "m", "p", ";">>)
         THEN <<"&">> \o Unescape(SubSeq(s, 6, Len(s)))
    ELSE IF starts_with(s, <<"&", "l", "t", ";">>)
         THEN <<"<">> \o Unescape(SubSeq(s, 5, Len(s)))
    ELSE IF starts_with(s, <<"&", "g", "t", ";">>)
         THEN <<">">> \o Unescape(SubSeq(s, 5, Len(s)))
    ELSE IF starts_with(s, <<"&", "q", "u", "o", "t", ";">>)
         THEN <<"\"">> \o Unescape(SubSeq(s, 7, Len(s)))
    ELSE <<Head(s)>> \o Unescape(Tail(s))

(***************************************************************************)
(* Markup nodes built by html!: elements, escaped text, and PreEscaped     *)
(* text that is inserted as it is.                                         *)
(***************************************************************************)
Elem(tag, attrs, kids) == [tag |-> tag, attrs |-> attrs, kids |-> kids, text |-> <<>>]

\* a literal of the template
Lit(chunk) == [tag |-> "#text", attrs |-> <<>>, kids |-> <<>>, text |-> <<chunk>>]

\* a spliced value, (expr): escaped
Splice(s) == [tag |-> "#text", attrs |-> <<>>, kids |-> <<>>, text |-> Escape(s)]

\* PreEscaped(s): not escaped
PreEscaped(s) == [tag |-> "#raw", attrs |-> <<>>, kids |-> <<>>, text |-> s]

\* an attribute with a literal value, and one with a spliced value
AttrLit(name, chunk) == <<name, <<chunk>>>>
AttrSplice(name, s) == <<name, Escape(s)>>

HasAttr(node, name) == \E k \in 1..Len(node.attrs) : node.attrs[k][1] = name

AttrOf(node, name) ==
    node.attrs[CHOOSE k \in 1..Len(node.attrs) : node.attrs[k][1] = name][2]

\* a sequence without its empty members, concatenated
RECURSIVE Flatten(_)
Flatten(ss) == IF ss = <<>> THEN <<>> ELSE Head(ss) \o Flatten(Tail(ss))

(***************************************************************************)
(* uuid::Uuid::new_v4 and its Display form.  A UUID is 32 nibbles.         *)
(***************************************************************************)
HexDigits == <<"0","1","2","3","4","5","6","7","8","9","a","b","c","d","e","f">>

\* the k-th value the random generator may return: 128 bits as 32 nibbles
RandomBits(k) ==
    [i \in 1..32 |->
        IF i = 32 THEN k % 16
        ELSE IF i = 31 THEN (k \div 16) % 16
        ELSE (5 * i) % 16]

\* Uuid::new_v4: random bits with the version nibble set to 4 and the two
\* variant bits set to 10
new_v4(r) ==
    [i \in 1..32 |->
        IF i = 13 THEN 4
        ELSE IF i = 17 THEN 8 + (r[i] % 4)
        ELSE r[i]]

Uuids == { new_v4(RandomBits(k)) : k \in 1..NumDraws }

HexOf(u, a, b) == [i \in 1..(b - a + 1) |-> HexDigits[u[a + i - 1] + 1]]

\* format!("{uuid}"): lower-case hex in groups of 8-4-4-4-12
Hyphenated(u) ==
    HexOf(u, 1, 8) \o <<"-">> \o HexOf(u, 9, 12) \o <<"-">> \o HexOf(u, 13, 16)
        \o <<"-">> \o HexOf(u, 17, 20) \o <<"-">> \o HexOf(u, 21, 32)

\* a plausible slip: a short id, the first group only
MountIdShort(u) == HexOf(u, 1, 8)

\* format!("{uuid}").replace("-", "")
MountId(u) == replace(Hyphenated(u), <<"-">>, <<>>)

(***************************************************************************)
(* serde_json::Value, serde_json::to_string, and the reading back of the   *)
(* JSON text.  A value is a node [t, s, v]: t its type, s the characters   *)
(* of a string, a number or a member's key, v its elements or members.     *)
(***************************************************************************)
JNull == [t |-> "null", s |-> <<>>, v |-> <<>>]
JBool(b) == [t |-> IF b THEN "true" ELSE "false", s |-> <<>>, v |-> <<>>]
JNum(digits) == [t |-> "num", s |-> digits, v |-> <<>>]
JStr(chars) == [t |-> "str", s |-> chars, v |-> <<>>]
JArr(elems) == [t |-> "arr", s |-> <<>>, v |-> elems]
JMember(key, val) == [t |-> "member", s |-> key, v |-> <<val>>]
JObj(members) == [t |-> "obj", s |-> <<>>, v |-> members]

JsonEscapeChar(c) ==
    CASE c = "\"" -> <<"\\", "\"">>
      [] c = "\\" -> <<"\\", "\\">>
      [] c = "\n" -> <<"\\", "n">>
      [] OTHER    -> <<c>>

RECURSIVE JsonEscape(_)
JsonEscape(s) ==
    IF s = <<>> THEN <<>> ELSE JsonEscapeChar(Head(s)) \o JsonEscape(Tail(s))

JsonString(s) == <<"\"">> \o JsonEscape(s) \o <<"\"">>

RECURSIVE to_string(_)
RECURSIVE JoinValues(_)
\* the elements or members of a compound value, separated by commas
JoinValues(vs) ==
    IF vs = <<>> THEN <<>>
    ELSE IF Len(vs) = 1 THEN to_string(vs[1])
    ELSE to_string(vs[1]) \o <<",">> \o JoinValues(Tail(vs))

\* serde_json::to_string: compact, nothing but " \ and control characters
\* escaped inside strings
to_string(j) ==
    CASE j.t = "null"   -> <<"n", "u", "l", "l">>
      [] j.t = "true"   -> <<"t", "r", "u", "e">>
      [] j.t = "false"  -> <<"f", "a", "l", "s", "e">>
      [] j.t = "num"    -> j.s
      [] j.t = "str"    -> JsonString(j.s)
      [] j.t = "arr"    -> <<"[">> \o JoinValues(j.v) \o <<"]">>
      [] j.t = "member" -> JsonString(j.s) \o <<":">> \o to_string(j.v[1])
      [] j.t = "obj"    -> <<"{">> \o JoinValues(j.v) \o <<"}">>

Digits == {"0","1","2","3","4","5","6","7","8","9"}

ParseFail == [ok |-> FALSE, val |-> JNull, next |-> 0]
ParseOk(val, next) == [ok |-> TRUE, val |-> val, next |-> next]

RECURSIVE ParseChars(_, _, _)
\* the characters of a string literal from s[i] to its closing quote
ParseChars(s, i, acc) ==
    IF i > Len(s) THEN ParseFail
    ELSE IF s[i] = "\"" THEN ParseOk(JStr(acc), i + 1)
    ELSE IF s[i] = "\\"
         THEN IF i + 1 > Len(s) THEN ParseFail
              ELSE IF s[i + 1] = "n" THEN ParseChars(s, i + 2, Append(acc, "\n"))
              ELSE IF s[i + 1] \in {"\"", "\\", "/"}
                   THEN ParseChars(s, i + 2, Append(acc, s[i + 1]))
              ELSE ParseFail
    ELSE IF s[i] = "\n" THEN ParseFail
    ELSE ParseChars(s, i + 1, Append(acc, s[i]))

RECURSIVE ParseDigits(_, _, _)
ParseDigits(s, i, acc) ==
    IF i <= Len(s) /\ s[i] \in Digits
    THEN ParseDigits(s, i + 1, Append(acc, s[i]))
    ELSE ParseOk(JNum(acc), i)

RECURSIVE ParseValue(_, _)
RECURSIVE ParseElems(_, _, _)
RECURSIVE ParseMembers(_, _, _)

\* the elements of an array after "[" or after a comma
ParseElems(s, i, acc) ==
    LET e == ParseValue(s, i) IN
    IF ~e.ok \/ e.next > Len(s) THEN ParseFail
    ELSE IF s[e.next] = "," THEN ParseElems(s, e.next + 1, Append(acc, e.val))
    ELSE IF s[e.next] = "]" THEN ParseOk(JArr(Append(acc, e.val)), e.next + 1)
    ELSE ParseFail

\* the members of an object after "{" or after a comma
ParseMembers(s, i, acc) ==
    IF i > Len(s) \/ s[i] # "\"" THEN ParseFail
    ELSE
      LET k == ParseChars(s, i + 1, <<>>) IN
      IF ~k.ok \/ k.next > Len(s) \/ s[k.next] # ":" THEN ParseFail
      ELSE
        LET e == ParseValue(s, k.next + 1) IN
        IF ~e.ok \/ e.next > Len(s) THEN ParseFail
        ELSE IF s[e.next] = ","
             THEN ParseMembers(s, e.next + 1, Append(acc, JMember(k.val.s, e.val)))
        ELSE IF s[e.next] = "}"
             THEN ParseOk(JObj(Append(acc, JMember(k.val.s, e.val))), e.next + 1)
        ELSE ParseFail

ParseValue(s, i) ==
    IF i > Len(s) THEN ParseFail
    ELSE IF MatchAt(s, i, <<"n", "u", "l", "l">>) THEN ParseOk(JNull, i + 4)
    ELSE IF MatchAt(s, i, <<"t", "r", "u", "e">>) THEN ParseOk(JBool(TRUE), i + 4)
    ELSE IF MatchAt(s, i, <<"f", "a", "l", "s", "e">>) THEN ParseOk(JBool(FALSE), i + 5)
    ELSE IF s[i] \in Digits THEN ParseDigits(s, i, <<>>)
    ELSE IF s[i] = "\"" THEN ParseChars(s, i + 1, <<>>)
    ELSE IF s[i] = "["
         THEN IF MatchAt(s, i, <<"[", "]">>) THEN ParseOk(JArr(<<>>), i + 2)
              ELSE ParseElems(s, i + 1, <<>>)
    ELSE IF s[i] = "{"
         THEN IF MatchAt(s, i, <<"{", "}">>) THEN ParseOk(JObj(<<>>), i + 2)
              ELSE ParseMembers(s, i + 1, <<>>)
    ELSE ParseFail

\* the value a JSON text denotes, when the whole text is one value
Parse(s) ==
    LET r == ParseValue(s, 1) IN
    IF r.ok /\ r.next = Len(s) + 1 THEN r ELSE ParseFail

(***************************************************************************)
(* conv: the conversational aside the no-script notice is rendered with.   *)
(***************************************************************************)
StickerBase == "https://cdn.xeiaso.net/file/christine-static/stickers/"

StickerUrl(name_lower, mood, ext) ==
    <<StickerBase>> \o Escape(name_lower) \o <<"/">> \o Escape(mood) \o <<ext>>

conv(name, mood, body) ==
    LET name_lower == to_lowercase(name)
        shown == replace(name, <<"_">>, <<" ">>)
    IN  Elem("div", <<AttrLit("class", "conversation")>>, <<
            Elem("div", <<AttrLit("class", "conversation-standalone")>>, <<
                Elem("picture", <<>>, <<
                    Elem("source", <<AttrLit("type", "image/avif"),
                                     <<"srcset", StickerUrl(name_lower, mood, ".avif")>>>>, <<>>),
                    Elem("source", <<AttrLit("type", "image/webp"),
                                     <<"srcset", StickerUrl(name_lower, mood, ".webp")>>>>, <<>>),
                    Elem("img", <<AttrLit("style", "max-height:4.5rem"),
                                  <<"alt", Escape(shown) \o <<" is ">> \o Escape(mood)>>,
                                  AttrLit("loading", "lazy"),
                                  <<"src", StickerUrl(name_lower, mood, ".png")>>>>, <<>>)
                >>)
            >>),
            Elem("div", <<AttrLit("class", "conversation-chat")>>,
                <<Lit("&lt;"),
                  Elem("a", <<<<"href", <<"/characters#">> \o Escape(name_lower)>>>>,
                       <<Elem("b", <<>>, <<Splice(shown)>>)>>),
                  Lit("&gt; ")>> \o body)
        >>)

(***************************************************************************)
(* xeact_component: the container with its no-script notice, then the      *)
(* script, a PreEscaped string made by format!.                            *)
(***************************************************************************)
ScriptOpen == "<script type=\"module\">"
ImportPre == "import Component from \"/static/xeact/"
ImportQuery == ".js?cacheBuster="
LookupPre == "\";\n\nconst g = (name) => document.getElementById(name);\nconst x = (elem) => {\n    while (elem.lastChild) {\n        elem.removeChild(elem.lastChild);\n    }\n};\n\nconst root = g(\""
LookupPost == "\");\nx(g);\n\nroot.appendChild(Component("
CallPost == "))\n"
\* the closing tag, spelt out: it is what the HTML tokenizer scans for
ScriptClose == <<"<", "/", "s", "c", "r", "i", "p", "t", ">">>

NoScriptNotice == "This dynamic component requires JavaScript to function, sorry!"

Aoi == <<"A", "o", "i">>
coffee == <<"c", "o", "f", "f", "e", "e">>

\* format!(r#"..."#, data = ...): name, uuid and data interpolated as they are
ScriptText(name, uuid, data) ==
    <<"\n", ScriptOpen, "\n", ImportPre>> \o name \o <<ImportQuery>> \o uuid
        \o <<LookupPre>> \o uuid \o <<LookupPost>> \o data \o <<CallPost>>
        \o ScriptClose \o <<"\n">>

Container(uuid) ==
    Elem("div", <<AttrSplice("id", uuid)>>, <<
        Elem("noscript", <<>>, <<
            Elem("div", <<AttrLit("class", "warning")>>,
                 <<conv(Aoi, coffee, <<PreEscaped(<<NoScriptNotice>>)>>)>>)
        >>)
    >>)

\* a plausible slip: the script written with the hyphenated form of the
\* UUID, the container with the stripped one
xeact_componentHyphenated(name, data, r) ==
    LET uuid == MountId(new_v4(r))
        script == PreEscaped(ScriptText(name, Hyphenated(new_v4(r)), to_string(data)))
    IN  <<Container(uuid), script>>

\* r: the bits the random generator returns to Uuid::new_v4 in this call
xeact_component(name, data, r) ==
    LET uuid == MountId(new_v4(r))
        script == PreEscaped(ScriptText(name, uuid, to_string(data)))
    IN  <<Container(uuid), script>>

(***************************************************************************)
(* The browser's reading of the emitted page.  Inside a script element     *)
(* the HTML tokenizer is in one of three states: script data, escaped      *)
(* (after "<!--") and double escaped (after "<script" while escaped).  An  *)
(* end tag "</script" closes the element in the first two; in the third    *)
(* it only leads back to the second.  Tag names match in any case.         *)
(***************************************************************************)
TagEnd == {">", "/", " ", "\n", "\t"}

\* t[i..] is the tag name (in any case) and what ends a tag name
TagAt(t, i, tag) ==
    /\ t[i] = "<"
    /\ i + Len(tag) <= Len(t)
    /\ to_lowercase(SubSeq(t, i, i + Len(tag) - 1)) = tag
    /\ t[i + Len(tag)] \in TagEnd

CloseAt(t, i) == TagAt(t, i, <<"<", "/", "s", "c", "r", "i", "p", "t">>)

OpenAt(t, i) ==
    \/ t[i] = ScriptOpen
    \/ TagAt(t, i, <<"<", "s", "c", "r", "i", "p", "t">>)

CommentOpen == <<"<", "!", "-", "-">>
CommentClose == <<"-", "-", ">">>

\* whether the tokenizer, in state st, changes state or ends the element at t[k]
Event(t, k, st) ==
    \/ CloseAt(t, k)
    \/ st = "data" /\ MatchAt(t, k, CommentOpen)
    \/ st # "data" /\ MatchAt(t, k, CommentClose)
    \/ st = "escaped" /\ OpenAt(t, k)

RECURSIVE ScriptScan(_, _, _)
\* from t[i] in state st: where the end tag that closes the element starts
\* (end, 0 when the text runs out first) and the state the tokenizer is in
ScriptScan(t, i, st) ==
    LET events == { k \in i..Len(t) : Event(t, k, st) } IN
    IF events = {} THEN [end |-> 0, st |-> st]
    ELSE
      LET k == CHOOSE e \in events : \A o \in events : e <= o IN
      IF st = "data"
      THEN IF CloseAt(t, k) THEN [end |-> k, st |-> "html"]
           ELSE ScriptScan(t, k + 2, "escaped")
      ELSE IF st = "escaped"
      THEN IF CloseAt(t, k) THEN [end |-> k, st |-> "html"]
           ELSE IF MatchAt(t, k, CommentClose) THEN ScriptScan(t, k + 3, "data")
           ELSE ScriptScan(t, k + 1, "double")
      ELSE IF CloseAt(t, k) THEN ScriptScan(t, k + 1, "escaped")
           ELSE ScriptScan(t, k + 3, "data")

\* index of the chunk that opens the script element in a fragment's script
OpenIndex == 2

\* where the script element of a fragment ends, 0 when nothing in the
\* fragment ends it
ScriptEnd(text) == ScriptScan(text, OpenIndex + 1, "data").end

\* where the closing tag written by xeact_component starts
OwnClose(text) == Len(text) - Len(ScriptClose)

\* the first place of a chunk in a text, 0 when it is not there
IndexOf(text, chunk) ==
    LET at == { k \in 1..Len(text) : text[k] = chunk } IN
    IF at = {} THEN 0 ELSE CHOOSE k \in at : \A o \in at : k <= o

\* where the script element's content ends
ContentEnd(text) ==
    IF ScriptEnd(text) = 0 THEN Len(text) ELSE ScriptEnd(text) - 1

\* the content is the whole program that was written, not a part of it
Runnable(text) == ScriptEnd(text) = OwnClose(text)

\* the part of the script element's content between two literals of the
\* template, empty when the content does not hold both
Between(text, a, b) ==
    LET k == IndexOf(text, a)
        m == IndexOf(text, b)
    IN  IF 0 < k /\ k < m /\ m <= ContentEnd(text)
        THEN SubSeq(text, k + 1, m - 1)
        ELSE <<>>

\* the query parameter of the import, the argument of g, the name of the
\* imported module, as they stand in the script element's content
CacheBuster(text) == Between(text, ImportQuery, LookupPre)
LookupArg(text) == Between(text, LookupPre, LookupPost)
ImportName(text) == Between(text, ImportPre, ImportQuery)

\* the argument of Component: what stands between "Component(" and the
\* end of the content, less the "))" that closes the two calls
EmbeddedData(text) ==
    LET k == IndexOf(text, LookupPost)
        e == ContentEnd(text)
    IN  IF 0 < k /\ k <= e
        THEN SubSeq(text, k + 1, IF text[e] = CallPost THEN e - 1 ELSE e)
        ELSE <<>>

ContainerOf(f) == f.markup[CHOOSE k \in 1..Len(f.markup) : f.markup[k].tag = "div"]
ScriptOf(f) == f.markup[CHOOSE k \in 1..Len(f.markup) : f.markup[k].tag = "#raw"].text

RECURSIVE ParsePage(_, _, _, _)
\* the fragments of pg from the i-th on, read in tokenizer state st with acc
\* found so far: the containers that become elements and the script
\* elements that start at a fragment's own opening tag
ParsePage(pg, i, st, acc) ==
    IF i > Len(pg) THEN acc
    ELSE IF st = "html"
         THEN LET r == ScriptScan(ScriptOf(pg[i]), OpenIndex + 1, "data")
              IN  ParsePage(pg, i + 1, r.st,
                            [containers |-> acc.containers \cup {i},
                             scripts |-> acc.scripts \cup {i}])
    ELSE LET r == ScriptScan(ScriptOf(pg[i]), 1, st)
         IN  ParsePage(pg, i + 1, r.st, acc)

Document(pg) == ParsePage(pg, 1, "html", [containers |-> {}, scripts |-> {}])

IdOf(elem) == Unescape(AttrOf(elem, "id"))

(***************************************************************************)
(* The script as it runs in the browser.  JavaScript values that matter:   *)
(* an element (a container of the page), a function, null.                 *)
(***************************************************************************)
JsElement(i) == [kind |-> "element", idx |-> i]
JsFunction == [kind |-> "function", idx |-> 0]
JsNull == [kind |-> "null", idx |-> 0]

\* const g = (name) => document.getElementById(name): the first element of
\* the document, in document order, with that id
g(d, pg, name) ==
    LET hits == { i \in DOMAIN d : IdOf(ContainerOf(pg[i])) = name } IN
    IF hits = {} THEN JsNull
    ELSE JsElement(CHOOSE i \in hits : \A j \in hits : i <= j)

\* const x = (elem) => { while (elem.lastChild) elem.removeChild(elem.lastChild) }
\* lastChild of a value that is no element is undefined: the loop body never runs
x(d, elem) ==
    IF elem.kind = "element" THEN [d EXCEPT ![elem.idx] = <<>>] ELSE d

\* the node the widget's default export returns for the props it is given
Component(text) ==
    [tag |-> "#widget", attrs |-> <<>>, kids |-> <<>>,
     text |-> ImportName(text) \o <<"(">> \o EmbeddedData(text) \o <<")">>]

\* root.appendChild(node)
appendChild(d, root, node) ==
    IF root.kind = "element" THEN [d EXCEPT ![root.idx] = Append(@, node)] ELSE d

(***************************************************************************)
(* Inputs of the model.                                                    *)
(***************************************************************************)
Video == <<"V", "i", "d", "e", "o">>
NoFunAllowed == <<"N", "o", "F", "u", "n", "A", "l", "l", "o", "w", "e", "d">>

path == <<"p", "a", "t", "h">>

\* the calls the page-assembly process may make: talk_warning's, video's
\* (here with further, nested props), and calls whose props are strings
\* that hold markup of a script
MountRequests ==
    { <<NoFunAllowed, JNull>>,
      <<Video, JObj(<<JMember(path, JStr(<<"x">>)),
                      JMember(<<"a">>,
                              JArr(<<JNull, JObj(<<>>), JBool(TRUE),
                                     JArr(<<JNum(<<"1">>), JStr(<<"\"", "\\">>)>>)>>))>>)>>,
      <<NoFunAllowed, JStr(<<"<", "/", "s", "c", "r", "i", "p", "t", ">">>)>>,
      <<Video, JStr(<<"<", "!", "-", "-", "<", "s", "c", "r", "i", "p", "t", ">">>)>> }

NotRendered == <<>>

(***************************************************************************)
(* The hydration bridge: one page render, then the page in the browser.    *)
(***************************************************************************)
TootIdle == tootU = <<>> /\ tootT = <<>> /\ tootOut = NotRendered

Init ==
    /\ page = <<>>
    /\ phase = "render"
    /\ dom = <<>>
    /\ nextScript = 1
    /\ ran = {}
    /\ TootIdle

\* the page-assembly process calls xeact_component once more
Mount(name, data, r) ==
    /\ phase = "render"
    /\ Len(page) < MaxCalls
    /\ page' = Append(page, [name |-> name, data |-> data, uuid |-> new_v4(r),
                             markup |-> xeact_component(name, data, r)])
    /\ UNCHANGED <<phase, dom, nextScript, ran, tootU, tootT, tootOut>>

\* the browser has parsed the page: each container that became an element
\* holds the children it was written with
LoadPage ==
    /\ phase = "render"
    /\ phase' = "client"
    /\ dom' = [i \in Document(page).containers |-> ContainerOf(page[i]).kids]
    /\ UNCHANGED <<page, nextScript, ran, tootU, tootT, tootOut>>

\* the module script of fragment i runs (module scripts run in document
\* order once the document is parsed)
RunScript(i) ==
    /\ phase = "client"
    /\ i = nextScript
    /\ i \in Document(page).scripts
    /\ Runnable(ScriptOf(page[i]))
    /\ LET text == ScriptOf(page[i])
           root == g(dom, page, LookupArg(text))
           cleared == x(dom, JsFunction)
       IN  dom' = appendChild(cleared, root, Component(text))
    /\ ran' = ran \cup {i}
    /\ nextScript' = i + 1
    /\ UNCHANGED <<page, phase, tootU, tootT, tootOut>>

\* fragment i has no script that can run: its text was swallowed by an
\* earlier script element, or its script element holds a part of the program
SkipScript(i) ==
    /\ phase = "client"
    /\ i = nextScript
    /\ i \in 1..Len(page)
    /\ ~(i \in Document(page).scripts /\ Runnable(ScriptOf(page[i])))
    /\ nextScript' = i + 1
    /\ UNCHANGED <<page, phase, dom, ran, tootU, tootT, tootOut>>

Next ==
    \/ \E req \in MountRequests, k \in 1..NumDraws :
           Mount(req[1], req[2], RandomBits(k))
    \/ LoadPage
    \/ \E i \in 1..MaxCalls : RunScript(i)
    \/ \E i \in 1..MaxCalls : SkipScript(i)

Spec == Init /\ [][Next]_vars

(***************************************************************************)
(* toot_embed.  An Option is [some, v]; the identity of a user is only     *)
(* ever compared, and is a plain string.                                   *)
(***************************************************************************)
None == [some |-> FALSE, v |-> <<>>]
Some(v) == [some |-> TRUE, v |-> v]
unwrap_or(o, d) == IF o.some THEN o.v ELSE d

TrustedId == "https://pony.social/users/cadey"
VerifiedPng == "https://cdn.xeiaso.net/file/christine-static/blog/verified.png"
ImagePrefix == <<"i", "m", "a", "g", "e", "/">>
VideoPrefix == <<"v", "i", "d", "e", "o", "/">>
VerifiedMarker == <<":", "v", "e", "r", "i", "f", "i", "e", "d", ":">>

TwoDigits(n) == <<HexDigits[((n \div 10) % 10) + 1], HexDigits[(n % 10) + 1]>>

\* published.format("M%m %d %Y %H:%M (UTC)")
FormatPublished(d) ==
    <<"M">> \o TwoDigits(d.month) \o <<" ">> \o TwoDigits(d.day) \o <<" ">>
        \o TwoDigits(d.year \div 100) \o TwoDigits(d.year) \o <<" ">>
        \o TwoDigits(d.hour) \o <<":">> \o TwoDigits(d.minute) \o <<" (UTC)">>

\* a href=(att.url) { img width="100%" height="100%" src=(att.url) alt=(...); }
ImageLink(att) ==
    Elem("a", <<AttrSplice("href", att.url)>>,
         <<Elem("img", <<AttrLit("width", "100%"), AttrLit("height", "100%"),
                         AttrSplice("src", att.url),
                         AttrSplice("alt", unwrap_or(att.name,
                                                     <<"no description provided">>))>>,
                <<>>)>>)

\* video width="100%" height="100%" controls { source ...; "Your browser ..." a ... }
VideoPlayer(att) ==
    Elem("video", <<AttrLit("width", "100%"), AttrLit("height", "100%"),
                    <<"controls", <<>>>>>>,
         <<Elem("source", <<AttrSplice("src", att.url),
                            AttrSplice("type", att.media_type)>>, <<>>),
           Lit("Your browser does not support the video tag, see this URL: "),
           Elem("a", <<AttrSplice("href", att.url)>>, <<Splice(att.url)>>)>>)

\* a plausible slip: the kind looked for anywhere in the media type
RenderAttachmentAnywhere(att) ==
    (IF Contains(att.media_type, ImagePrefix) THEN <<ImageLink(att)>> ELSE <<>>)
        \o (IF Contains(att.media_type, VideoPrefix) THEN <<VideoPlayer(att)>> ELSE <<>>)

\* the body of the @for loop: what one attachment is rendered as
RenderAttachment(att) ==
    (IF starts_with(att.media_type, ImagePrefix) THEN <<ImageLink(att)>> ELSE <<>>)
        \o (IF starts_with(att.media_type, VideoPrefix) THEN <<VideoPlayer(att)>> ELSE <<>>)

Br == Elem("br", <<>>, <<>>)

\* a plausible slip: the break only when something visible was rendered
AttachmentBreakIfVisible(t) ==
    IF \E k \in 1..Len(t.attachment) : RenderAttachment(t.attachment[k]) # <<>>
    THEN <<Br>> ELSE <<>>

\* @if t.attachment.len() != 0 { br; }
AttachmentBreak(t) == IF Len(t.attachment) # 0 THEN <<Br>> ELSE <<>>

\* a plausible slip: the internal id whether or not there is a url
PermalinkIdOnly(t) == Elem("a", <<AttrSplice("href", t.id)>>, <<Lit("Link")>>)

\* a href=(t.url.unwrap_or(t.id)) { "Link" }
Permalink(t) == Elem("a", <<AttrSplice("href", unwrap_or(t.url, t.id))>>, <<Lit("Link")>>)

\* a plausible slip: the attachments and their break before the text
TootContentAttachmentsFirst(t) ==
    Flatten([k \in 1..Len(t.attachment) |-> RenderAttachment(t.attachment[k])])
        \o AttachmentBreak(t)
        \o <<PreEscaped(t.content)>>
        \o <<Permalink(t)>>

\* let content = html! { ... }
TootContent(t) ==
    <<PreEscaped(t.content)>>
        \o Flatten([k \in 1..Len(t.attachment) |-> RenderAttachment(t.attachment[k])])
        \o AttachmentBreak(t)
        \o <<Permalink(t)>>

\* a plausible slip: the badge for whoever writes the marker in their name
VerifiedBadgeByName(u) ==
    IF Contains(u.name, VerifiedMarker)
    THEN <<Elem("img", <<AttrLit("class", "verified"), AttrLit("src", VerifiedPng)>>, <<>>)>>
    ELSE <<>>

\* @if u.id == "https://pony.social/users/cadey" { img.verified ...; }
VerifiedBadge(u) ==
    IF u.id = TrustedId
    THEN <<Elem("img", <<AttrLit("class", "verified"), AttrLit("src", VerifiedPng)>>, <<>>)>>
    ELSE <<>>

\* a plausible slip: the disclosure written open
ContentWarningGateOpen(t, content) ==
    IF t.summary.some
    THEN <<Elem("details", <<<<"open", <<>>>>>>,
                <<Elem("summary", <<>>,
                       <<Lit("Content warning: "), Splice(t.summary.v)>>)>> \o content)>>
    ELSE content

\* @if let Some(warning) = t.summary { details { ... } } @else { (content) }
ContentWarningGate(t, content) ==
    IF t.summary.some
    THEN <<Elem("details", <<>>,
                <<Elem("summary", <<>>,
                       <<Lit("Content warning: "), Splice(t.summary.v)>>)>> \o content)>>
    ELSE content

toot_embed(u, t) ==
    LET content == TootContent(t) IN
    <<Elem("div", <<AttrLit("class", "media")>>, <<
        Elem("div", <<AttrLit("class", "media-left")>>, <<
            Elem("div", <<AttrLit("class", "avatarholder")>>, <<
                Elem("img", <<AttrSplice("src", u.icon.url),
                              <<"alt", <<"the profile picture for ">>
                                           \o Escape(u.preferred_username)>>>>, <<>>)
            >>)
        >>),
        Elem("div", <<AttrLit("class", "media-body")>>, <<
            Elem("div", <<AttrLit("class", "media-heading")>>,
                <<Splice(replace(u.name, VerifiedMarker, <<>>))>>
                    \o VerifiedBadge(u)
                    \o <<Lit(" "),
                         Elem("a", <<AttrSplice("href", u.url)>>,
                              <<Lit("@"), Splice(u.preferred_username)>>),
                         Br,
                         Splice(FormatPublished(t.published))>>),
            Elem("div", <<AttrLit("class", "media-content")>>,
                 ContentWarningGate(t, content))
        >>)
    >>)>>

(***************************************************************************)
(* Posts and authors the renderer is given.                                *)
(***************************************************************************)
cadey == <<"c", "a", "d", "e", "y">>

UserIds == {TrustedId, "https://pony.social/users/cadey/", "https://example.social/users/cadey"}

UserNames ==
    { <<"C", "a", "d", "e", "y">>,
      <<"M", "e", " ">> \o VerifiedMarker }

Users ==
    { [id |-> id, name |-> name, preferred_username |-> cadey,
       url |-> <<"/", "@", "c", "a", "d", "e", "y">>,
       icon |-> [url |-> <<"/", "a", ".", "p", "n", "g">>]] :
      id \in UserIds, name \in UserNames }

Attachment(media_type, url, name) == [media_type |-> media_type, url |-> url, name |-> name]

Attachments ==
    { Attachment(ImagePrefix \o <<"p", "n", "g">>, <<"/", "i", "?", "a", "&", "b">>,
                 Some(<<"a", " ", "\"", "c", "a", "t", "\"">>)),
      Attachment(ImagePrefix \o <<"g", "i", "f">>, <<"/", "g">>, None),
      Attachment(VideoPrefix \o <<"m", "p", "4">>, <<"/", "v">>, None),
      Attachment(<<"a", "p", "p", "l", "i", "c", "a", "t", "i", "o", "n", "/", "p", "d", "f">>,
                 <<"/", "d">>, None),
      Attachment(<<"x", "/">> \o ImagePrefix, <<"/", "x">>, None) }

RECURSIVE SeqsUpTo(_, _)
\* the sequences of members of S of length at most n
SeqsUpTo(S, n) ==
    IF n = 0 THEN {<<>>}
    ELSE LET shorter == SeqsUpTo(S, n - 1) IN
         shorter \cup { Append(q, e) : q \in shorter, e \in S }

Toots ==
    { [content |-> <<"<", "p", ">", "h", "i", "<", "/", "p", ">">>,
       attachment |-> atts, summary |-> summary, url |-> url,
       id |-> <<"1", "2", "3">>,
       published |-> [year |-> 2022, month |-> 11, day |-> 5, hour |-> 7, minute |-> 30]] :
      atts \in SeqsUpTo(Attachments, MaxAttachments),
      summary \in {None, Some(<<"f", "o", "o", "d">>), Some(<<"<", "3", " ", "&">>)},
      url \in {None, Some(<<"/", "n", "/", "1", "?", "a", "&", "b">>)} }

BridgeIdle ==
    page = <<>> /\ phase = "render" /\ dom = <<>> /\ nextScript = 1 /\ ran = {}

\* the collaborator hands over an author and a post
TootInit ==
    /\ BridgeIdle
    /\ tootU \in Users
    /\ tootT \in Toots
    /\ tootOut = NotRendered

TootEmbed ==
    /\ tootOut = NotRendered
    /\ tootOut' = toot_embed(tootU, tootT)
    /\ UNCHANGED <<page, phase, dom, nextScript, ran, tootU, tootT>>

TootNext == TootEmbed

TootSpec == TootInit /\ [][TootNext]_vars

(***************************************************************************)
(* Properties of the hydration bridge.                                     *)
(***************************************************************************)
RECURSIVE IdsIn(_)
\* the id attributes of the elements of a markup, in document order
IdsIn(nodes) ==
    IF nodes = <<>> THEN <<>>
    ELSE LET n == Head(nodes) IN
         (IF HasAttr(n, "id") THEN <<Unescape(AttrOf(n, "id"))>> ELSE <<>>)
             \o IdsIn(n.kids) \o IdsIn(Tail(nodes))

Calls == 1..Len(page)

\* C1 as stated: every call emits exactly one container element, and the id
\* of that container differs from the id every other call emitted.
C1_IdsNeverReused ==
    LET ids == [i \in Calls |-> IdsIn(page[i].markup)] IN
    \A i \in Calls :
        /\ Len(ids[i]) = 1
        /\ \A j \in Calls \ {i} : ids[i] # ids[j]

\* C1, amended: every call emits exactly one container element, and two
\* calls emit the same id only when Uuid::new_v4 returned the same value to
\* both; nothing in the code keeps the generator from repeating a value.
C1_IdsDifferWhenDrawsDiffer ==
    LET ids == [i \in Calls |-> IdsIn(page[i].markup)] IN
    \A i \in Calls :
        /\ Len(ids[i]) = 1
        /\ \A j \in Calls \ {i} : ids[i] = ids[j] => page[i].uuid = page[j].uuid

\* two calls of one render that were handed different values
C1_Witness ==
    \E i, j \in Calls :
        /\ page[i].uuid # page[j].uuid
        /\ IdsIn(page[i].markup) # IdsIn(page[j].markup)

\* C2: the script element of every call is closed by the closing tag that
\* xeact_component wrote and by nothing inside the serialized props, and the
\* JSON text found in the script element, parsed, equals the props.
C2_PropsRoundTrip ==
    \A i \in Calls :
        LET text == ScriptOf(page[i]) IN
        /\ ScriptEnd(text) = OwnClose(text)
        /\ Parse(EmbeddedData(text)).ok
        /\ Parse(EmbeddedData(text)).val = page[i].data

IsNotice(node) == node.tag = "noscript"

\* C3: from page load until its script runs a container holds the no-script
\* notice; once the script of call i has run, the only child of the
\* container it looked up is the node the widget returned, and the notice
\* is no longer there.
C3_NoticeReplacedByWidget ==
    phase = "client" =>
        \A i \in DOMAIN dom :
            LET text == ScriptOf(page[i])
                root == g(dom, page, LookupArg(text))
            IN  IF i \in ran
                THEN /\ root.kind = "element"
                     /\ dom[root.idx] = <<Component(text)>>
                     /\ \A k \in 1..Len(dom[root.idx]) : ~IsNotice(dom[root.idx][k])
                ELSE \/ \E k \in 1..Len(dom[i]) : IsNotice(dom[i][k])
                     \/ \E j \in ran : g(dom, page, LookupArg(ScriptOf(page[j]))).idx = i

\* C10: in the fragment of every call one token is the id of the container,
\* the cacheBuster parameter of the import and the argument of the lookup;
\* the container stands before the script, and it is the one element of the
\* fragment that has this id.
C10_OneTokenThreePlaces ==
    \A i \in Calls :
        LET m == page[i].markup
            text == ScriptOf(page[i])
            c == CHOOSE k \in 1..Len(m) : m[k].tag = "div"
            sc == CHOOSE k \in 1..Len(m) : m[k].tag = "#raw"
        IN  /\ IdOf(m[c]) = CacheBuster(text)
            /\ IdOf(m[c]) = LookupArg(text)
            /\ IdOf(m[c]) = MountId(page[i].uuid)
            /\ c < sc
            /\ IdsIn(m) = <<LookupArg(text)>>

\* a call for the Video widget with props has been rendered
C10_Witness ==
    \E i \in Calls :
        /\ page[i].name = Video
        /\ page[i].data # JNull
        /\ LookupArg(ScriptOf(page[i])) = MountId(page[i].uuid)

(***************************************************************************)
(* Properties of the post renderer.                                        *)
(***************************************************************************)
Rendered == tootOut # NotRendered

MediaContent(out) == out[1].kids[2].kids[2].kids
Heading(out) == out[1].kids[2].kids[1].kids

\* the body: what the disclosure holds after its label, or the content
Body(out) ==
    LET c == MediaContent(out) IN
    IF Len(c) = 1 /\ c[1].tag = "details" THEN Tail(c[1].kids) ELSE c

RECURSIVE CountTag(_, _)
\* how many elements with this tag a markup holds, at any depth
CountTag(nodes, tag) ==
    IF nodes = <<>> THEN 0
    ELSE (IF Head(nodes).tag = tag THEN 1 ELSE 0)
             + CountTag(Head(nodes).kids, tag) + CountTag(Tail(nodes), tag)

RECURSIVE Shown(_)
\* the text a browser shows for a markup built by html!
Shown(nodes) ==
    IF nodes = <<>> THEN <<>>
    ELSE (IF Head(nodes).tag = "#text" THEN Unescape(Head(nodes).text) ELSE <<>>)
             \o Shown(Head(nodes).kids) \o Shown(Tail(nodes))

Href(node) == Unescape(AttrOf(node, "href"))

IsImageLink(n) == n.tag = "a" /\ Len(n.kids) = 1 /\ n.kids[1].tag = "img"
IsVideo(n) == n.tag = "video"
IsMedia(n) == IsImageLink(n) \/ IsVideo(n)
IsBr(n) == n.tag = "br"
IsPermalink(n) == n.tag = "a" /\ Shown(n.kids) = <<"Link">>
IsBadge(n) == n.tag = "img" /\ HasAttr(n, "class") /\ AttrOf(n, "class") = <<"verified">>

KindIs(att, kind) ==
    Len(att.media_type) >= Len(kind) /\ SubSeq(att.media_type, 1, Len(kind)) = kind

IsImageKind(att) == KindIs(att, <<"i", "m", "a", "g", "e", "/">>)
IsVideoKind(att) == KindIs(att, <<"v", "i", "d", "e", "o", "/">>)
IsKnownKind(att) == IsImageKind(att) \/ IsVideoKind(att)

\* the address a rendered attachment points to
MediaUrl(n) ==
    IF IsImageLink(n) THEN Href(n) ELSE Unescape(AttrOf(n.kids[1], "src"))

UrlsOf(atts) == [k \in 1..Len(atts) |-> atts[k].url]
MediaUrls(nodes) == [k \in 1..Len(nodes) |-> MediaUrl(nodes[k])]

\* the body with the post's content warning taken away
PlainBody == MediaContent(toot_embed(tootU, [tootT EXCEPT !.summary = None]))

\* the shape both readings of C4 share; label is what the disclosure must show
GateShape(label) ==
    LET c == MediaContent(tootOut) IN
    IF tootT.summary.some
    THEN /\ Len(c) = 1
         /\ c[1].tag = "details"
         /\ ~HasAttr(c[1], "open")
         /\ CountTag(tootOut, "details") = 1
         /\ c[1].kids[1].tag = "summary"
         /\ Shown(<<c[1].kids[1]>>) = label
         /\ Tail(c[1].kids) = PlainBody
    ELSE /\ CountTag(tootOut, "details") = 0
         /\ CountTag(tootOut, "summary") = 0
         /\ c = PlainBody
         /\ Len(SelectSeq(c, IsPermalink)) = 1

\* C4 as stated: a post with a content warning has its whole body in one
\* disclosure, collapsed, whose label is the warning text; a post without
\* one has no disclosure and the same body.
C4_LabelIsWarning == Rendered => GateShape(tootT.summary.v)

\* C4, amended: the label is "Content warning: " followed by the warning
\* text; the rest as stated.
C4_LabelIsPrefixedWarning ==
    Rendered => GateShape(<<"Content warning: ">> \o tootT.summary.v)

\* a post with a warning that holds markup characters, and attachments
C4_Witness ==
    /\ Rendered
    /\ tootT.summary.some
    /\ Contains(tootT.summary.v, <<"<">>)
    /\ Len(tootT.attachment) > 0

\* the parts of a body b: the text at place txt, the rendered attachments
\* from place first on, then the break (if any), the permalink last
BodyOrder(b, txt, first) ==
    LET media == SelectSeq(b, IsMedia)
        brs == IF Len(tootT.attachment) # 0 THEN 1 ELSE 0
    IN  /\ Len(b) = 1 + Len(media) + brs + 1
        /\ b[txt].tag = "#raw"
        /\ b[txt].text = tootT.content
        /\ \A k \in 1..Len(media) : IsMedia(b[first + k - 1])
        /\ MediaUrls(media) = UrlsOf(SelectSeq(tootT.attachment, IsKnownKind))
        /\ brs = 1 => IsBr(b[first + Len(media)])
        /\ IsPermalink(b[Len(b)])

\* C5 as stated: the attachments in list order, then the break, then the
\* text as it was given, and the permalink last.
C5_AttachmentsThenText ==
    Rendered =>
        LET b == Body(tootOut) IN BodyOrder(b, Len(b) - 1, 1)

\* C5, amended: the text as it was given comes first, then the attachments
\* in list order, then the break, and the permalink last.
C5_TextThenAttachments ==
    Rendered => BodyOrder(Body(tootOut), 1, 2)

\* a post with two attachments of known kinds
C5_Witness ==
    /\ Rendered
    /\ Len(tootT.attachment) = 2
    /\ IsImageKind(tootT.attachment[1])
    /\ IsVideoKind(tootT.attachment[2])

\* C6: the attachments whose kind starts with "image/" or "video/" are
\* rendered one element each, in order, an image inside a link to the
\* attachment for the first, a video player with a fallback text and link
\* for the second; every other attachment is rendered as nothing.
C6_DispatchOnPrefix ==
    Rendered =>
        LET media == SelectSeq(Body(tootOut), IsMedia)
            known == SelectSeq(tootT.attachment, IsKnownKind)
        IN  /\ Len(media) = Len(known)
            /\ CountTag(tootOut, "video") = Len(SelectSeq(tootT.attachment, IsVideoKind))
            /\ CountTag(Body(tootOut), "img") = Len(SelectSeq(tootT.attachment, IsImageKind))
            /\ \A k \in 1..Len(known) :
                   LET att == known[k]
                       n == media[k]
                   IN  IF IsImageKind(att)
                       THEN /\ IsImageLink(n)
                            /\ Href(n) = att.url
                            /\ Unescape(AttrOf(n.kids[1], "src")) = att.url
                       ELSE /\ IsVideo(n)
                            /\ HasAttr(n, "controls")
                            /\ Len(n.kids) = 3
                            /\ n.kids[1].tag = "source"
                            /\ Unescape(AttrOf(n.kids[1], "src")) = att.url
                            /\ Unescape(AttrOf(n.kids[1], "type")) = att.media_type
                            /\ n.kids[2].tag = "#text"
                            /\ n.kids[3].tag = "a"
                            /\ Href(n.kids[3]) = att.url
                            /\ Shown(n.kids[3].kids) = att.url

\* a post with an image and an attachment whose kind only holds "image/"
C6_Witness ==
    /\ Rendered
    /\ \E k \in 1..Len(tootT.attachment) : IsImageKind(tootT.attachment[k])
    /\ \E k \in 1..Len(tootT.attachment) :
           /\ ~IsKnownKind(tootT.attachment[k])
           /\ Contains(tootT.attachment[k].media_type, ImagePrefix)

\* C7: the body holds one line break when the post has attachments,
\* whatever their kinds, and none when it has no attachment.
C7_BreakIffAttachments ==
    Rendered =>
        Len(SelectSeq(Body(tootOut), IsBr))
            = IF Len(tootT.attachment) # 0 THEN 1 ELSE 0

\* a post whose attachments are all of unknown kinds
C7_Witness ==
    /\ Rendered
    /\ Len(tootT.attachment) > 0
    /\ \A k \in 1..Len(tootT.attachment) : ~IsKnownKind(tootT.attachment[k])
    /\ SelectSeq(Body(tootOut), IsMedia) = <<>>

\* C8: the verified badge is emitted, once, exactly when the author's
\* identity is the trusted one; the name and the post do not decide it.
C8_BadgeIffTrustedId ==
    Rendered =>
        /\ CountTag(tootOut, "img") - CountTag(Body(tootOut), "img")
               = IF tootU.id = "https://pony.social/users/cadey" THEN 2 ELSE 1
        /\ Len(SelectSeq(Heading(tootOut), IsBadge))
               = IF tootU.id = "https://pony.social/users/cadey" THEN 1 ELSE 0

\* an author who is not the trusted one and writes the marker in the name
C8_Witness ==
    /\ Rendered
    /\ tootU.id # TrustedId
    /\ Contains(tootU.name, VerifiedMarker)
    /\ SelectSeq(Heading(tootOut), IsBadge) = <<>>

\* C9: the body holds one permalink; it points to the post's url when
\* there is one and to the post's id when there is none.
C9_PermalinkFallsBackToId ==
    Rendered =>
        LET links == SelectSeq(Body(tootOut), IsPermalink) IN
        /\ Len(links) = 1
        /\ Href(links[1]) = IF tootT.url.some THEN tootT.url.v ELSE tootT.id

\* a post without a url, rendered with its id as the link target
C9_Witness ==
    /\ Rendered
    /\ ~tootT.url.some
    /\ Href(Body(tootOut)[Len(Body(tootOut))]) = tootT.id

====
